---------------------------- MODULE Spec2Model ----------------------------
(***************************************************************************)
(* A* search for the sliding-tile puzzle, as implemented in                *)
(* original-code/A-Star Search.cpp (class AStar, AStar Search.hpp), and    *)
(* three of the example servers of the repository: the task manager        *)
(* (examples/04-task-manager-server/index.js), the path validation of the  *)
(* filesystem server and the cache of the weather server (both in          *)
(* examples/01-filesystem-server/index.js).  The programs share no state;  *)
(* each has its own specification.                                         *)
(*                                                                         *)
(* A grid is a sequence of rows, a[i][j] with i, j counted from 1.         *)
(* A node is a record [a, g, h, f, parent]; parent is NULL or the position *)
(* of an entry of the list closed (the code stores &closed.back(), and a   *)
(* std::list never moves or drops an element that is not erased).  Every   *)
(* node's member goal is a copy of startNode.goal and is never written     *)
(* after input, so it is kept once, in the variable goal.                  *)
(***************************************************************************)
EXTENDS Integers, Sequences, FiniteSets, TLC

VARIABLES
    macro,           \* the heuristic compiled in: MISPLACED_TILES or MANHATTAN
    directions,      \* the order in which getSuccessors tries the four moves
    goal,            \* startNode.goal, copied into every node
    fringe,          \* list<AStar> fringe
    closed,          \* list<AStar> closed
    startNode,
    currentNode,
    childNode,
    nodesGenerated,
    nodesExpanded,
    out,             \* the grids printed by printPath, in order
    pc,              \* where main/solve stands
    run,             \* number of the solve() call in progress
    firstOut,        \* what the first solve() call printed and counted
    \* examples/04-task-manager-server/index.js
    tasks,           \* let tasks = []
    nextId,          \* let nextId = 1
    tasksFile,       \* what TASKS_FILE holds on disk
    pendingSaves,    \* the fs.writeFile calls of saveTasks still in flight
    tmRequest,       \* the tools/call request handled last
    tmResponse,      \* what its handler returned
    tmCalls,         \* number of tools/call requests handled
    tmPc,            \* "start": before main(); "running"; "exiting": SIGINT seen
    tmRestarts,      \* number of times the process was started again
    deletedIds,      \* history: the ids of the tasks deleteTask has removed
    \* examples/01-filesystem-server/index.js
    fsRequest,       \* the request handled last
    fsResponse,      \* what its handler returned (or threw)
    fsOp,            \* the fs call that handler made, if any
    \* the weather server, examples/01-filesystem-server/index.js from line 451
    cache,           \* const cache = new Map(): key -> {data, timestamp}
    now,             \* what Date.now() returns
    fetches,         \* the calls awaiting fetch(url), in the order they began
    apiRequests,     \* number of fetch(url) calls issued so far
    wxEvent          \* what the server did last

puzzleVars == <<macro, directions, goal, fringe, closed, startNode, currentNode, childNode,
                nodesGenerated, nodesExpanded, out, pc, run, firstOut>>

taskVars == <<tasks, nextId, tasksFile, pendingSaves, tmRequest, tmResponse,
              tmCalls, tmPc, tmRestarts, deletedIds>>

fsVars == <<fsRequest, fsResponse, fsOp>>

wxVars == <<cache, now, fetches, apiRequests, wxEvent>>

vars == <<macro, directions, goal, fringe, closed, startNode, currentNode, childNode,
          nodesGenerated, nodesExpanded, out, pc, run, firstOut,
          tasks, nextId, tasksFile, pendingSaves, tmRequest, tmResponse,
          tmCalls, tmPc, tmRestarts, deletedIds, fsRequest, fsResponse, fsOp,
          cache, now, fetches, apiRequests, wxEvent>>

-----------------------------------------------------------------------------
(* Program constants *)

MAX_ROWS == 3
MAX_COLUMNS == 3
NULL == 0
\* const CACHE_TTL = 600000; // 10 minutes
CACHE_TTL == 600000

(* Bounds of the model *)

\* start grids are taken up to this many slides away from a goal grid
MaxSlides == 5
\* rows of the reduced board on which a whole parity class is exhausted
ReducedRows == 2

ReducedColumns == MAX_COLUMNS - 1
\* start grids of the reduced board: this many slides away from its two grids
ReducedSlides == 2
\* the weather server's clock advances this many times, half of CACHE_TTL each
MaxTicks == 3
\* the weather server issues at most this many API requests
MaxRequests == 3
\* at most this many of them are awaited at the same time
MaxFetches == 2

-----------------------------------------------------------------------------
(* Grids *)

RowsOf(a) == 1..Len(a)
ColsOf(a) == 1..Len(a[1])
NumCells(a) == Len(a) * Len(a[1])

\* the n-th cell in the order of the nested i, j loops
CellAt(a, n) == <<((n - 1) \div Len(a[1])) + 1, ((n - 1) % Len(a[1])) + 1>>

abs(x) == IF x < 0 THEN -x ELSE x

swap(a, i, j, k, l) == [a EXCEPT ![i][j] = a[k][l], ![k][l] = a[i][j]]

\* AStar::operator==  (compares the grids only)
OperatorEq(x, y) ==
    \A i \in RowsOf(x.a) : \A j \in ColsOf(x.a) : x.a[i][j] = y.a[i][j]

\* as operator<, comparing the heuristic values alone
OperatorLess_ByH(x, y) == x.h <= y.h

\* AStar::operator<  (the code returns this->f <= cur.f)
OperatorLess(x, y) == x.f <= y.f

-----------------------------------------------------------------------------
(* AStar::getHeuristic *)

Cells(a) == RowsOf(a) \X ColsOf(a)

\* MISPLACED_TILES: h++ for every cell (i, j) with a[i][j] != goal[i][j]
MisplacedTiles(a, gl) ==
    Cardinality({p \in Cells(a) : a[p[1]][p[2]] # gl[p[1]][p[2]]})

\* (k, l) is reached before (k2, l2) by the nested k, l loops
LoopOrder(q, r) == q[1] < r[1] \/ (q[1] = r[1] /\ q[2] <= r[2])

\* MANHATTAN, for the cell p = (i, j): the k, l loops stop at the first goal
\* cell holding a[i][j] and add abs(i - k) + abs(j - l); they add nothing if
\* no goal cell holds it
ManhattanTerm(a, gl, p) ==
    LET hits == {q \in Cells(gl) : gl[q[1]][q[2]] = a[p[1]][p[2]]}
    IN IF hits = {} THEN 0
       ELSE LET q == CHOOSE q \in hits : \A r \in hits : LoopOrder(q, r)
            IN abs(p[1] - q[1]) + abs(p[2] - q[2])

Manhattan(a, gl) ==
    LET sum[n \in 0..NumCells(a)] ==
            IF n = 0 THEN 0 ELSE sum[n - 1] + ManhattanTerm(a, gl, CellAt(a, n))
    IN sum[NumCells(a)]

getHeuristic(a, gl, mc) ==
    IF mc = "MANHATTAN" THEN Manhattan(a, gl) ELSE MisplacedTiles(a, gl)

\* AStar::isGoal
isGoal(a, gl) == \A i \in RowsOf(a) : \A j \in ColsOf(a) : a[i][j] = gl[i][j]

-----------------------------------------------------------------------------
(* AStar::isExplored, getTotalCost, setChildState *)

\* as isExplored, looking at the last element of closed only
isExplored_LastOnly(cl, cur) == cl # <<>> /\ OperatorEq(cl[Len(cl)], cur)

\* as isExplored, with a comparison that stops after the first row
isExplored_FirstRow(cl, cur) == \E k \in 1..Len(cl) : cl[k].a[1] = cur.a[1]

isExplored(cl, cur) == \E k \in 1..Len(cl) : OperatorEq(cl[k], cur)

\* as getTotalCost, with getHeuristic adding to the h copied from the parent
getTotalCost_KeepH(child, gl, mc) ==
    LET g1 == child.g + 1
        h1 == child.h + getHeuristic(child.a, gl, mc)
    IN [child EXCEPT !.g = g1, !.h = h1, !.f = g1 + h1]

\* as getTotalCost, without g++
getTotalCost_NoIncrement(child, gl, mc) ==
    LET h1 == getHeuristic(child.a, gl, mc)
    IN [child EXCEPT !.h = h1, !.f = child.g + h1]

getTotalCost(child, gl, mc) ==
    LET g1 == child.g + 1
        h1 == getHeuristic(child.a, gl, mc)
    IN [child EXCEPT !.g = g1, !.h = h1, !.f = g1 + h1]

\* as setChildState, without nodesGenerated++
setChildState_NoCount(child, cl, gl, mc) ==
    IF ~isExplored(cl, child)
    THEN [childNode |-> getTotalCost(child, gl, mc), pushed |-> TRUE, generated |-> 0]
    ELSE [childNode |-> child, pushed |-> FALSE, generated |-> 0]

\* as setChildState, with nodesGenerated++ moved into the branch that pushes
setChildState_CountKept(child, cl, gl, mc) ==
    IF ~isExplored(cl, child)
    THEN [childNode |-> getTotalCost(child, gl, mc), pushed |-> TRUE, generated |-> 1]
    ELSE [childNode |-> child, pushed |-> FALSE, generated |-> 0]

\* one call of setChildState on the candidate in childNode: the value it
\* leaves in childNode, whether it pushed it to the fringe, and what it added
\* to nodesGenerated.  It reads closed and writes nothing the next call reads.
setChildState(child, cl, gl, mc) ==
    IF ~isExplored(cl, child)
    THEN [childNode |-> getTotalCost(child, gl, mc), pushed |-> TRUE, generated |-> 1]
    ELSE [childNode |-> child, pushed |-> FALSE, generated |-> 1]

-----------------------------------------------------------------------------
(* AStar::getSuccessors *)

\* the four checks of lines 117-160, in the order they are written
Directions == <<"up", "down", "left", "right">>

\* one of the four checks at a blank cell (i, j): the grid it produces, if any
MoveTo(a, i, j, dir) ==
    CASE dir = "up" -> IF i > 1 THEN <<swap(a, i, j, i - 1, j)>> ELSE <<>>
      [] dir = "down" -> IF i < Len(a) THEN <<swap(a, i, j, i + 1, j)>> ELSE <<>>
      [] dir = "left" -> IF j > 1 THEN <<swap(a, i, j, i, j - 1)>> ELSE <<>>
      [] dir = "right" -> IF j < Len(a[1]) THEN <<swap(a, i, j, i, j + 1)>> ELSE <<>>

\* as MovesAtIn, with the last of the four checks left out
MovesAtIn_ThreeChecks(a, i, j, dirs) ==
    MoveTo(a, i, j, dirs[1]) \o MoveTo(a, i, j, dirs[2]) \o MoveTo(a, i, j, dirs[3])

\* the grids produced at a blank cell (i, j) by the four checks in the order dirs
MovesAtIn(a, i, j, dirs) ==
    MoveTo(a, i, j, dirs[1]) \o MoveTo(a, i, j, dirs[2])
    \o MoveTo(a, i, j, dirs[3]) \o MoveTo(a, i, j, dirs[4])

\* the grids produced at a blank cell (i, j): up, down, left, right
MovesAt(a, i, j) == MovesAtIn(a, i, j, Directions)

\* the candidate grids of a, in the order the nested loops produce them
RECURSIVE MovesFromIn(_, _, _)
MovesFromIn(a, n, dirs) ==
    IF n > NumCells(a) THEN <<>>
    ELSE LET c == CellAt(a, n)
         IN (IF a[c[1]][c[2]] = 0 THEN MovesAtIn(a, c[1], c[2], dirs) ELSE <<>>)
            \o MovesFromIn(a, n + 1, dirs)

MovesFrom(a, n) == MovesFromIn(a, n, Directions)

MovesIn(a, dirs) == MovesFromIn(a, 1, dirs)

Moves(a) == MovesFrom(a, 1)

\* as MakeChild, without the assignment to childNode.parent
MakeChild_KeepParent(cur, cl, grid) == [cur EXCEPT !.a = grid]

\* as MakeChild, with childNode.parent = &(closed.front())
MakeChild_ParentFront(cur, cl, grid) == [cur EXCEPT !.parent = 1, !.a = grid]

\* childNode = currentNode; childNode.parent = &(closed.back()); swap
MakeChild(cur, cl, grid) == [cur EXCEPT !.parent = Len(cl), !.a = grid]

\* as ListRemove, erasing only the first element equal to currentNode
ListRemove_FirstOnly(fr, cur) ==
    LET eq == {k \in 1..Len(fr) : OperatorEq(fr[k], cur)}
    IN IF eq = {} THEN fr
       ELSE LET k0 == CHOOSE k \in eq : \A k2 \in eq : k <= k2
            IN SubSeq(fr, 1, k0 - 1) \o SubSeq(fr, k0 + 1, Len(fr))

\* as ListRemove, erasing only the copies of the very node selected
ListRemove_SelectedOnly(fr, cur) == SelectSeq(fr, LAMBDA n : n # cur)

\* as ListRemove, erasing only the last element equal to currentNode
ListRemove_LastOnly(fr, cur) ==
    LET eq == {k \in 1..Len(fr) : OperatorEq(fr[k], cur)}
    IN IF eq = {} THEN fr
       ELSE LET k0 == CHOOSE k \in eq : \A k2 \in eq : k >= k2
            IN SubSeq(fr, 1, k0 - 1) \o SubSeq(fr, k0 + 1, Len(fr))

\* as ListRemove, erasing also every element whose grid an earlier element of
\* the list holds already
ListRemove_KeepFirstOfEach(fr, cur) ==
    LET keep == {k \in 1..Len(fr) :
                    /\ ~OperatorEq(fr[k], cur)
                    /\ \A m \in 1..(k - 1) : ~OperatorEq(fr[m], fr[k])}
        pick[n \in 0..Len(fr)] ==
            IF n = 0 THEN <<>>
            ELSE IF n \in keep THEN Append(pick[n - 1], fr[n]) ELSE pick[n - 1]
    IN pick[Len(fr)]

\* fringe.remove(currentNode): erases every element equal to currentNode
ListRemove(fr, cur) == SelectSeq(fr, LAMBDA n : ~OperatorEq(n, cur))

\* the calls of setChildState made by the loop over the cells, lines 111-165,
\* one per candidate grid, in order, with closed already holding currentNode
ChildLoop(cur, cl1, grids, gl, mc) ==
    <<>> \o [n \in 1..Len(grids) |->
                setChildState(MakeChild(cur, cl1, grids[n]), cl1, gl, mc)]

Pushed(res) ==
    LET kept == SelectSeq(res, LAMBDA r : r.pushed)
    IN [n \in 1..Len(kept) |-> kept[n].childNode]

Generated(res) ==
    LET sum[n \in 0..Len(res)] == IF n = 0 THEN 0 ELSE sum[n - 1] + res[n].generated
    IN sum[Len(res)]

\* the globals after getSuccessors: [fringe, closed, nodesGenerated, childNode]
\* (closed after push_back and the loop's results are bound once each, as
\* elements of singleton sets)
getSuccessors(cur, fr, cl, ng, child, gl, mc, dirs) ==
    CHOOSE r \in
        {[fringe |-> ListRemove(fr \o Pushed(cr[2]), cur),
          closed |-> cr[1],
          nodesGenerated |-> ng + Generated(cr[2]),
          childNode |-> IF cr[2] = <<>> THEN child ELSE cr[2][Len(cr[2])].childNode] :
            cr \in {<<c1, ChildLoop(cur, c1, grids, gl, mc)>> :
                        c1 \in {Append(cl, cur)}, grids \in {MovesIn(cur.a, dirs)}}} : TRUE

-----------------------------------------------------------------------------
(* AStar::solve: the selection scan, and AStar::printPath *)

\* currentNode = fringe.front();
\* for (it = begin; it != end; ++it) if (*it < currentNode) currentNode = *it;
\* scan[<<k, n>>]: the tentative node is fr[k] and the iterator stands at fr[n]
SelectNode(fr) ==
    LET scan[kn \in (1..Len(fr)) \X (1..(Len(fr) + 1))] ==
            IF kn[2] > Len(fr) THEN kn[1]
            ELSE scan[<<IF OperatorLess(fr[kn[2]], fr[kn[1]]) THEN kn[2] ELSE kn[1],
                        kn[2] + 1>>]
    IN fr[scan[<<1, 1>>]]

\* as printPath, printing the ancestors only
RECURSIVE printPath_AncestorsOnly(_, _)
printPath_AncestorsOnly(cl, cur) ==
    IF cur.parent = NULL THEN <<>>
    ELSE Append(printPath_AncestorsOnly(cl, cl[cur.parent]), cl[cur.parent].a)

RECURSIVE printPath(_, _)
printPath(cl, cur) ==
    IF cur.parent = NULL THEN <<cur.a>>
    ELSE Append(printPath(cl, cl[cur.parent]), cur.a)

\* solve() as a function of its input: the grids printed, or <<>> when the
\* fringe runs empty.  The selected node and the globals after getSuccessors
\* are bound once each, as elements of singleton sets.
RECURSIVE RunSearch(_, _, _, _, _)
RunSearch(fr, cl, gl, mc, dirs) ==
    IF fr = <<>> THEN <<>>
    ELSE CHOOSE res \in
            {IF isGoal(cur.a, gl) THEN printPath(cl, cur)
             ELSE CHOOSE nxt \in
                    {RunSearch(r.fringe, r.closed, gl, mc, dirs) :
                        r \in {getSuccessors(cur, fr, cl, 0, cur, gl, mc, dirs)}} : TRUE :
                cur \in {SelectNode(fr)}} : TRUE

\* main and solve() on a start grid, lines 283-290
RunFrom(start, gl, mc, dirs) ==
    LET h0 == getHeuristic(start, gl, mc)
    IN RunSearch(<<[a |-> start, g |-> 0, h |-> h0, f |-> 0 + h0, parent |-> NULL]>>,
                 <<>>, gl, mc, dirs)

-----------------------------------------------------------------------------
(* Inputs *)


Macros == {"MISPLACED_TILES", "MANHATTAN"}

\* the grid 1, 2, ..., 0 in row-major order
Canon(R, C) ==
    [i \in 1..R |-> [j \in 1..C |->
        IF (i - 1) * C + j = R * C THEN 0 ELSE (i - 1) * C + j]]

SeqToSet(s) == {s[k] : k \in 1..Len(s)}

\* the orders in which the four direction checks can be written
DirectionOrders ==
    {d \in [1..4 -> SeqToSet(Directions)] : \A i, j \in 1..4 : i # j => d[i] # d[j]}

\* the grids at most k slides away from the grids of S
RECURSIVE Ball(_, _)
Ball(S, k) ==
    IF k = 0 THEN S
    ELSE LET B == Ball(S, k - 1)
         IN B \cup UNION {SeqToSet(Moves(a)) : a \in B}

StandardGoal == Canon(MAX_ROWS, MAX_COLUMNS)
SpiralGoal == <<<<1, 2, 3>>, <<8, 0, 4>>, <<7, 6, 5>>>>
GoalGrids == {StandardGoal, SpiralGoal}

\* spec.md, section 8: the concrete solvable scenario
ScenarioStart == <<<<1, 2, 3>>, <<4, 0, 6>>, <<7, 5, 8>>>>
\* a start twelve slides away from the standard goal
DeepStart == <<<<7, 1, 3>>, <<2, 4, 6>>, <<5, 8, 0>>>>

\* a start eight slides away from the standard goal in which no cell, the
\* blank's included, holds what the goal holds there
AllMisplacedStart == <<<<0, 1, 2>>, <<5, 6, 3>>, <<4, 7, 8>>>>

\* grids that do not hold each of 0..8 exactly once
NoBlankGrid == <<<<1, 2, 3>>, <<4, 5, 6>>, <<7, 8, 8>>>>
OnesGrid == <<<<1, 1, 1>>, <<1, 1, 1>>, <<1, 1, 1>>>>

ValidInputs ==
    UNION {{<<s, g>> : s \in Ball({g}, MaxSlides)} : g \in GoalGrids}
    \cup {<<ScenarioStart, StandardGoal>>, <<DeepStart, StandardGoal>>,
          <<AllMisplacedStart, StandardGoal>>}

InvalidInputs ==
    {<<NoBlankGrid, StandardGoal>>, <<OnesGrid, OnesGrid>>}

Inputs == ValidInputs \cup InvalidInputs

\* the reduced board: a goal, and the grid of the other parity class
ReducedGoal == Canon(ReducedRows, ReducedColumns)
ReducedTwin == swap(ReducedGoal, 1, 1, 1, 2)
ReducedInputs ==
    {<<s, ReducedGoal>> : s \in Ball({ReducedGoal, ReducedTwin}, ReducedSlides)}

-----------------------------------------------------------------------------
(* examples/04-task-manager-server/index.js: the task list and its file.    *)
(* A task is [id, status]; its title, description, priority, tags and dates *)
(* are left out, all titles being taken as equally long.  The resources and *)
(* prompts handlers and get_statistics read the list only and are left out. *)

\* requests handled by one process, and restarts of the process
MaxCalls == 3
MaxRestarts == 1

\* the id argument of a request: a JSON number, or a JSON string
NumberId(n) == [type |-> "number", v |-> n]
StringId(n) == [type |-> "string", v |-> n]
NoId == [type |-> "none", v |-> 0]

RequestIds == {NumberId(n) : n \in 1..MaxCalls} \cup {StringId(1)}
Statuses == {"todo", "in_progress", "done"}
UpdateStatuses == {"in_progress", "done"}

\* t.id === id, for a task id that is a number
StrictEqId(tid, id) == id.type = "number" /\ id.v = tid

\* tasks.findIndex((t) => t.id === id): 0-based, -1 if there is none
findIndex(ts, id) ==
    LET hits == {k \in 1..Len(ts) : StrictEqId(ts[k].id, id)}
    IN IF hits = {} THEN -1
       ELSE (CHOOSE k \in hits : \A m \in hits : k <= m) - 1

\* getTask: tasks.find(...); the position of the task found, 0 for undefined
getTask(ts, id) == findIndex(ts, id) + 1

\* tasks.splice(index, 1), index 0-based, a negative index counting from the end
splice(ts, index) ==
    LET from == IF index < 0
                THEN (IF Len(ts) + index < 0 THEN 0 ELSE Len(ts) + index)
                ELSE (IF index > Len(ts) THEN Len(ts) ELSE index)
    IN SubSeq(ts, 1, from) \o SubSeq(ts, from + 2, Len(ts))

\* createTask: [tasks, nextId, task, saved]
createTask(ts, nid) ==
    [tasks |-> Append(ts, [id |-> nid, status |-> "todo"]),
     nextId |-> nid + 1,
     task |-> nid,
     saved |-> TRUE]

\* updateTask: thrown is "Task <id> not found"; otherwise Object.assign
updateTask(ts, id, st) ==
    LET k == getTask(ts, id)
    IN IF k = 0
       THEN [thrown |-> TRUE, tasks |-> ts, saved |-> FALSE]
       ELSE [thrown |-> FALSE, tasks |-> [ts EXCEPT ![k].status = st], saved |-> TRUE]

\* as deleteTask, without the test of index === -1
deleteTask_NoCheck(ts, id) ==
    [thrown |-> FALSE, tasks |-> splice(ts, findIndex(ts, id)), saved |-> TRUE]

deleteTask(ts, id) ==
    LET index == findIndex(ts, id)
    IN IF index = -1
       THEN [thrown |-> TRUE, tasks |-> ts, saved |-> FALSE]
       ELSE [thrown |-> FALSE, tasks |-> splice(ts, index), saved |-> TRUE]

\* filterTasks({status})
filterTasks(ts, st) == SelectSeq(ts, LAMBDA t : t.status = st)

\* what TASKS_FILE holds: nothing (no file), an empty file, a JSON document,
\* or the bytes of a document followed by the tail of a longer one
NoDoc == <<<<>>, 0>>
AbsentFile == [kind |-> "absent", doc |-> NoDoc]
EmptyFile == [kind |-> "empty", doc |-> NoDoc]

\* JSON.stringify({ tasks, nextId }, null, 2): the document as text, a list
\* of (id, status) entries followed by nextId
JSONstringify(ts, nid) ==
    [kind |-> "json",
     doc |-> <<[k \in 1..Len(ts) |-> <<ts[k].id, ts[k].status>>], nid>>]

\* JSON.parse(data) of a document; it throws on anything else
JSONparse(file) ==
    IF file.kind = "json"
    THEN [thrown |-> FALSE,
          tasks |-> [k \in 1..Len(file.doc[1]) |->
                        [id |-> file.doc[1][k][1], status |-> file.doc[1][k][2]]],
          nextId |-> file.doc[2]]
    ELSE [thrown |-> TRUE, tasks |-> <<>>, nextId |-> 0]

\* loadTasks, called on the module's initial tasks = [] and nextId = 1:
\* ENOENT starts fresh, a parse error is logged and leaves both as they are
loadTasks(file, ts, nid) ==
    IF file.kind = "absent" THEN [tasks |-> <<>>, nextId |-> 1]
    ELSE LET parsed == JSONparse(file)
         IN IF parsed.thrown THEN [tasks |-> ts, nextId |-> nid]
            ELSE [tasks |-> parsed.tasks,
                  nextId |-> IF parsed.nextId = 0 THEN 1 ELSE parsed.nextId]

\* the text of one document is longer than another's: more tasks, or as many
\* tasks with longer status words
StatusLength(st) == IF st = "in_progress" THEN 11 ELSE 4
StatusChars(entries) ==
    LET sum[n \in 0..Len(entries)] ==
            IF n = 0 THEN 0 ELSE sum[n - 1] + StatusLength(entries[n][2])
    IN sum[Len(entries)]
LongerDoc(d1, d2) ==
    \/ Len(d1[1]) > Len(d2[1])
    \/ Len(d1[1]) = Len(d2[1]) /\ StatusChars(d1[1]) > StatusChars(d2[1])

\* the file after data has been written from offset 0 over what it holds
WriteOver(file, data) ==
    IF file.kind \in {"json", "garbled"} /\ LongerDoc(file.doc, data.doc)
    THEN [kind |-> "garbled", doc |-> file.doc]
    ELSE data

\* saveTasks: the text is built at the call, fs.writeFile is started and not
\* awaited by the caller; exit marks the save the SIGINT handler awaits
StartSave(saves, ts, nid, isExit) ==
    Append(saves, [data |-> JSONstringify(ts, nid), phase |-> "open", exit |-> isExit])

RemoveAt(seq, k) == SubSeq(seq, 1, k - 1) \o SubSeq(seq, k + 1, Len(seq))

NoRequest == [name |-> "none", id |-> NoId, status |-> "none"]
NoResponse == [isError |-> FALSE, kind |-> "none", id |-> NoId, ids |-> <<>>]

\* the error result of the tools/call handler's catch: "Error: Task <id> not found"
NotFound(id) == [isError |-> TRUE, kind |-> "Task not found", id |-> id, ids |-> <<>>]
Success(kind, id) == [isError |-> FALSE, kind |-> kind, id |-> id, ids |-> <<>>]

InitTaskManager ==
    /\ tasks = <<>>
    /\ nextId = 1
    /\ tasksFile = AbsentFile
    /\ pendingSaves = <<>>
    /\ tmRequest = NoRequest
    /\ tmResponse = NoResponse
    /\ tmCalls = 0
    /\ tmPc = "start"
    /\ tmRestarts = 0
    /\ deletedIds = {}

-----------------------------------------------------------------------------
(* examples/01-filesystem-server/index.js: validatePath.  A path string is  *)
(* a sequence of characters; the file system's content is not modelled.     *)

\* segments of a requested path
MaxSegments == 3

Sep == "/"
DotSeg == <<".">>
DotDotSeg == <<".", ".">>

\* process.cwd() is /w/a and __dirname is /w/s; /w/ab is a sibling of /w/a
Cwd == <<<<"w">>, <<"a">>>>
Dirname == <<<<"w">>, <<"s">>>>
SegmentNames == {<<"w">>, <<"a">>, <<"a", "b">>, <<"s">>}

RECURSIVE Render(_)
Render(segs) ==
    IF segs = <<>> THEN <<>> ELSE <<Sep>> \o Head(segs) \o Render(Tail(segs))

\* the absolute path string of a list of segments
PathString(segs) == IF segs = <<>> THEN <<Sep>> ELSE Render(segs)

\* the segments of a path string: the non-empty pieces between separators
Split(str) ==
    LET piece[n \in 0..Len(str)] ==
            IF n = 0 THEN <<<<>>, <<>>>>
            ELSE IF str[n] = Sep
                 THEN <<IF piece[n - 1][2] = <<>> THEN piece[n - 1][1]
                        ELSE Append(piece[n - 1][1], piece[n - 1][2]),
                        <<>>>>
                 ELSE <<piece[n - 1][1], Append(piece[n - 1][2], str[n])>>
        last == piece[Len(str)]
    IN IF last[2] = <<>> THEN last[1] ELSE Append(last[1], last[2])

\* "." and ".." resolved from left to right; ".." at the root stays there
Normalize(segs) ==
    LET norm[n \in 0..Len(segs)] ==
            IF n = 0 THEN <<>>
            ELSE IF segs[n] = DotSeg THEN norm[n - 1]
            ELSE IF segs[n] = DotDotSeg
                 THEN SubSeq(norm[n - 1], 1, Len(norm[n - 1]) - 1)
                 ELSE Append(norm[n - 1], segs[n])
    IN norm[Len(segs)]

\* path.resolve(p): p itself if absolute, else p under process.cwd(), normalized
pathResolve(str) ==
    PathString(Normalize(IF str # <<>> /\ str[1] = Sep
                         THEN Split(str) ELSE Cwd \o Split(str)))

\* String.prototype.startsWith
startsWith(str, prefix) ==
    Len(prefix) <= Len(str) /\ SubSeq(str, 1, Len(prefix)) = prefix

ALLOWED_DIRECTORIES == <<PathString(Cwd), PathString(Dirname)>>

\* ALLOWED_DIRECTORIES.some(dir => absolute.startsWith(path.resolve(dir)))
isAllowed(absolute) ==
    \E d \in 1..Len(ALLOWED_DIRECTORIES) :
        startsWith(absolute, pathResolve(ALLOWED_DIRECTORIES[d]))

\* validatePath: throws "Access denied: ..." or returns the absolute path
validatePath(requestedPath) ==
    LET absolute == pathResolve(requestedPath)
    IN [thrown |-> ~isAllowed(absolute), absolute |-> absolute]

\* the requested paths: relative and absolute, of at most MaxSegments segments
RECURSIVE SegmentLists(_)
SegmentLists(n) ==
    IF n = 0 THEN {<<>>}
    ELSE LET S == SegmentLists(n - 1)
         IN S \cup {Append(l, x) : l \in S, x \in SegmentNames \cup {DotSeg, DotDotSeg}}

RequestedPaths ==
    {Render(l) : l \in SegmentLists(MaxSegments)}
    \cup {SubSeq(Render(l), 2, Len(Render(l))) : l \in SegmentLists(MaxSegments)}

\* the tools of tools/call and the fs call each makes on the validated path
FsTools == {"read_file", "list_directory", "search_files", "get_file_info", "write_file"}
FsCall(name) ==
    CASE name = "read_file" -> "readFile"
      [] name = "list_directory" -> "readdir"
      [] name = "search_files" -> "readdir"
      [] name = "get_file_info" -> "stat"
      [] name = "write_file" -> "writeFile"

NoFsRequest == [method |-> "none", name |-> "none", path |-> <<>>]
NoFsResponse == [isError |-> FALSE, thrown |-> FALSE, kind |-> "none"]
NoFsOp == [call |-> "none", path |-> <<>>]

InitFilesystem ==
    /\ fsRequest = NoFsRequest
    /\ fsResponse = NoFsResponse
    /\ fsOp = NoFsOp

-----------------------------------------------------------------------------
(* The weather server (examples/01-filesystem-server/index.js from line     *)
(* 451): the cache of geocodeCity and getCurrentWeather.  Times are in      *)
(* milliseconds.  A cache key is [prefix, v]: the text before the colon and *)
(* the values joined after it.  What the API answers is reduced to the      *)
(* location found for a city name and the time at which a weather reading   *)
(* was taken.                                                               *)

\* the clock's step
Tick == CACHE_TTL \div 2

Cities == {"Paris", "paris", "Atlantis"}

\* city.toLowerCase()
toLowerCase(city) == IF city = "Paris" THEN "paris" ELSE city

\* the coordinates that get_weather_by_coordinates and geocodeCity's
\* results pass to getCurrentWeather
Coordinates == {<<"48.85", "2.35">>}

NoData == [kind |-> "none", name |-> "", latitude |-> "", longitude |-> "", observed |-> 0]

\* data.results of the geocoding API for a city name
GeocodingResults(city) ==
    IF toLowerCase(city) = "paris"
    THEN <<[kind |-> "location", name |-> "Paris", latitude |-> "48.85",
            longitude |-> "2.35", observed |-> 0]>>
    ELSE <<>>

\* the body of the weather API's answer for coordinates c, read at time t
WeatherData(c, t) ==
    [kind |-> "weather", name |-> "", latitude |-> c[1], longitude |-> c[2],
     observed |-> t]

\* `geocode:${city.toLowerCase()}` and `weather:${latitude},${longitude}`
GeocodeKey(city) == [prefix |-> "geocode", v |-> <<toLowerCase(city)>>]
WeatherKey(latitude, longitude) == [prefix |-> "weather", v |-> <<latitude, longitude>>]

CacheKeys ==
    {GeocodeKey(city) : city \in Cities}
    \cup {WeatherKey(c[1], c[2]) : c \in Coordinates}

\* cache.get(key) of a key never set
NoEntry == [present |-> FALSE, data |-> NoData, timestamp |-> 0]

\* as isFresh, with an entry still served at the instant its TTL runs out
isFresh_AtExpiry(cached, t) == cached.present /\ t - cached.timestamp <= CACHE_TTL

\* cached && Date.now() - cached.timestamp < CACHE_TTL
isFresh(cached, t) == cached.present /\ t - cached.timestamp < CACHE_TTL

\* cache.set(cacheKey, { data, timestamp: Date.now() })
cacheSet(c, key, data, t) ==
    [c EXCEPT ![key] = [present |-> TRUE, data |-> data, timestamp |-> t]]

WxEvent(op, key, result, data) ==
    [op |-> op, key |-> key, result |-> result, data |-> data]

NoKey == [prefix |-> "none", v |-> <<>>]

InitWeather ==
    /\ cache = [key \in CacheKeys |-> NoEntry]
    /\ now = 0
    /\ fetches = <<>>
    /\ apiRequests = 0
    /\ wxEvent = WxEvent("none", NoKey, "none", NoData)

-----------------------------------------------------------------------------
(* Initial state: the globals as constructed, after main has read the two   *)
(* grids into startNode.a and startNode.goal (lines 263-279).  Objects of   *)
(* static storage are zero-initialised.                                     *)

ZeroGrid(a) == [i \in RowsOf(a) |-> [j \in ColsOf(a) |-> 0]]
ZeroNode(a) == [a |-> ZeroGrid(a), g |-> 0, h |-> 0, f |-> 0, parent |-> NULL]

InitWithOrder(in, mc, dirs) ==
    /\ macro = mc
    /\ directions = dirs
    /\ goal = in[2]
    /\ startNode = [a |-> in[1], g |-> 0, h |-> 0, f |-> 0, parent |-> NULL]
    /\ currentNode = ZeroNode(in[1])
    /\ childNode = ZeroNode(in[1])
    /\ fringe = <<>>
    /\ closed = <<>>
    /\ nodesGenerated = 0
    /\ nodesExpanded = 0
    /\ out = <<>>
    /\ pc = "main"
    /\ run = 1
    /\ firstOut = <<>>

\* the program as written: the checks in the order of lines 117-160
InitWith(in, mc) == InitWithOrder(in, mc, Directions)

Init ==
    /\ \E in \in Inputs : \E mc \in Macros : InitWith(in, mc)
    /\ InitTaskManager
    /\ InitFilesystem
    /\ InitWeather

InitReduced ==
    /\ \E in \in ReducedInputs : \E mc \in Macros : InitWith(in, mc)
    /\ InitTaskManager
    /\ InitFilesystem
    /\ InitWeather

\* the program with the four direction checks of getSuccessors written in
\* any of their orders
InitDirections ==
    /\ \E in \in Inputs : \E mc \in Macros : \E dirs \in DirectionOrders :
          InitWithOrder(in, mc, dirs)
    /\ InitTaskManager
    /\ InitFilesystem
    /\ InitWeather

\* the filesystem server with a request that has arrived
InitFilesystemRequest ==
    /\ InitWith(<<StandardGoal, StandardGoal>>, "MISPLACED_TILES")
    /\ InitTaskManager
    /\ \E path \in RequestedPaths :
          fsRequest = [method |-> "arrived", name |-> "none", path |-> path]
    /\ fsResponse = NoFsResponse
    /\ fsOp = NoFsOp
    /\ InitWeather

\* the servers' initial state; the puzzle program stands where it starts on
\* one input and takes no step
InitServers ==
    /\ InitWith(<<StandardGoal, StandardGoal>>, "MISPLACED_TILES")
    /\ InitTaskManager
    /\ InitFilesystem
    /\ InitWeather

-----------------------------------------------------------------------------
(* Actions *)

\* main, lines 283-289: the start node's costs and parent
mainSetup ==
    /\ pc = "main"
    /\ LET h0 == getHeuristic(startNode.a, goal, macro)
       IN startNode' = [startNode EXCEPT !.g = 0, !.h = h0, !.f = 0 + h0,
                                         !.parent = NULL]
    /\ pc' = "solve"
    /\ UNCHANGED <<macro, directions, goal, fringe, closed, currentNode, childNode,
                   nodesGenerated, nodesExpanded, out, run, firstOut>>
    /\ UNCHANGED <<taskVars, fsVars, wxVars>>

\* solve, lines 193-195
solveEnter ==
    /\ pc = "solve"
    /\ currentNode' = startNode
    /\ fringe' = Append(fringe, startNode)
    /\ pc' = "loop"
    /\ UNCHANGED <<macro, directions, goal, closed, startNode, childNode,
                   nodesGenerated, nodesExpanded, out, run, firstOut>>
    /\ UNCHANGED <<taskVars, fsVars, wxVars>>

\* as loopGoal, without nodesExpanded = closed.size()
loopGoal_NoCount ==
    /\ pc = "loop"
    /\ fringe # <<>>
    /\ \E cur \in {SelectNode(fringe)} :
          /\ isGoal(cur.a, goal)
          /\ currentNode' = cur
          /\ out' = printPath(closed, cur)
    /\ pc' = "exit"
    /\ UNCHANGED <<macro, directions, goal, fringe, closed, startNode, childNode,
                   nodesGenerated, nodesExpanded, run, firstOut>>
    /\ UNCHANGED <<taskVars, fsVars, wxVars>>

\* one pass of while (true) that finds the goal: lines 199-214, then
\* main prints the counters and returns
loopGoal ==
    /\ pc = "loop"
    /\ fringe # <<>>
    /\ \E cur \in {SelectNode(fringe)} :
          /\ isGoal(cur.a, goal)
          /\ currentNode' = cur
          /\ nodesExpanded' = Len(closed)
          /\ out' = printPath(closed, cur)
    /\ pc' = "exit"
    /\ UNCHANGED <<macro, directions, goal, fringe, closed, startNode, childNode,
                   nodesGenerated, run, firstOut>>
    /\ UNCHANGED <<taskVars, fsVars, wxVars>>

\* one pass of while (true) that expands the selected node: lines 199-218
loopExpand ==
    /\ pc = "loop"
    /\ fringe # <<>>
    /\ \E cur \in {SelectNode(fringe)} :
          /\ ~isGoal(cur.a, goal)
          /\ currentNode' = cur
          /\ \E r \in {getSuccessors(cur, fringe, closed, nodesGenerated,
                                     childNode, goal, macro, directions)} :
                /\ fringe' = r.fringe
                /\ closed' = r.closed
                /\ nodesGenerated' = r.nodesGenerated
                /\ childNode' = r.childNode
    /\ pc' = "loop"
    /\ UNCHANGED <<macro, directions, goal, startNode, nodesExpanded, out, run, firstOut>>
    /\ UNCHANGED <<taskVars, fsVars, wxVars>>

\* line 199 with an empty list: fringe.front() has undefined behaviour.  The
\* build may fault, may print from an indeterminate node and return, or may
\* keep looping on indeterminate nodes.
UndefinedOutcomes == {"fault", "indeterminate_exit", "no_return"}

loopEmpty ==
    /\ pc = "loop"
    /\ fringe = <<>>
    /\ pc' \in UndefinedOutcomes
    /\ UNCHANGED <<macro, directions, goal, fringe, closed, startNode, currentNode, childNode,
                   nodesGenerated, nodesExpanded, out, run, firstOut>>
    /\ UNCHANGED <<taskVars, fsVars, wxVars>>

\* a second call of startNode.solve() in the same process: the globals of
\* lines 25-30 keep what the first call left in them
solveAgain ==
    /\ pc = "exit"
    /\ run = 1
    /\ run' = 2
    /\ firstOut' = <<out, nodesGenerated, nodesExpanded>>
    /\ out' = <<>>
    /\ pc' = "solve"
    /\ UNCHANGED <<macro, directions, goal, fringe, closed, startNode, currentNode, childNode,
                   nodesGenerated, nodesExpanded>>
    /\ UNCHANGED <<taskVars, fsVars, wxVars>>

Next == mainSetup \/ solveEnter \/ loopGoal \/ loopExpand \/ loopEmpty

NextRerun == Next \/ solveAgain

Spec == Init /\ [][Next]_vars

\* the loop is a plain sequential program: it always takes its next step
FairSpec == Spec /\ WF_vars(Next)

SpecReduced == InitReduced /\ [][Next]_vars

SpecRerun == Init /\ [][NextRerun]_vars

SpecDirections == InitDirections /\ [][Next]_vars

-----------------------------------------------------------------------------
(* Actions of the task manager server *)

\* main(): await loadTasks(), then the server is connected
tmMain ==
    /\ tmPc = "start"
    /\ \E l \in {loadTasks(tasksFile, tasks, nextId)} :
          /\ tasks' = l.tasks
          /\ nextId' = l.nextId
    /\ tmPc' = "running"
    /\ UNCHANGED <<tasksFile, pendingSaves, tmRequest, tmResponse, tmCalls, tmRestarts>>
    /\ UNCHANGED <<deletedIds, puzzleVars, fsVars, wxVars>>

\* the process is connected and takes a tools/call request
TmServing == tmPc \in {"running", "exiting"} /\ tmCalls < MaxCalls

\* tools/call create_task
handleCreateTask ==
    /\ TmServing
    /\ \E r \in {createTask(tasks, nextId)} :
          /\ tasks' = r.tasks
          /\ nextId' = r.nextId
          /\ pendingSaves' = StartSave(pendingSaves, r.tasks, r.nextId, FALSE)
          /\ tmResponse' = Success("Task created", NumberId(r.task))
    /\ tmRequest' = [name |-> "create_task", id |-> NoId, status |-> "none"]
    /\ tmCalls' = tmCalls + 1
    /\ UNCHANGED <<tasksFile, tmPc, tmRestarts>>
    /\ UNCHANGED <<deletedIds, puzzleVars, fsVars, wxVars>>

\* tools/call list_tasks, filtered by status
handleListTasks ==
    /\ TmServing
    /\ \E st \in Statuses :
          /\ tmRequest' = [name |-> "list_tasks", id |-> NoId, status |-> st]
          /\ tmResponse' =
                [isError |-> FALSE, kind |-> "Filtered Tasks", id |-> NoId,
                 ids |-> [k \in 1..Len(filterTasks(tasks, st)) |->
                             filterTasks(tasks, st)[k].id]]
    /\ tmCalls' = tmCalls + 1
    /\ UNCHANGED <<tasks, nextId, tasksFile, pendingSaves, tmPc, tmRestarts>>
    /\ UNCHANGED <<deletedIds, puzzleVars, fsVars, wxVars>>

\* tools/call get_task
handleGetTask ==
    /\ TmServing
    /\ \E id \in RequestIds :
          /\ tmRequest' = [name |-> "get_task", id |-> id, status |-> "none"]
          /\ tmResponse' = IF getTask(tasks, id) = 0 THEN NotFound(id)
                           ELSE Success("Task", id)
    /\ tmCalls' = tmCalls + 1
    /\ UNCHANGED <<tasks, nextId, tasksFile, pendingSaves, tmPc, tmRestarts>>
    /\ UNCHANGED <<deletedIds, puzzleVars, fsVars, wxVars>>

\* tools/call update_task, the update being a new status
handleUpdateTask ==
    /\ TmServing
    /\ \E id \in RequestIds : \E st \in UpdateStatuses :
          /\ tmRequest' = [name |-> "update_task", id |-> id, status |-> st]
          /\ \E r \in {updateTask(tasks, id, st)} :
                /\ tasks' = r.tasks
                /\ pendingSaves' = IF r.saved
                                   THEN StartSave(pendingSaves, r.tasks, nextId, FALSE)
                                   ELSE pendingSaves
                /\ tmResponse' = IF r.thrown THEN NotFound(id)
                                 ELSE Success("Task updated", id)
    /\ tmCalls' = tmCalls + 1
    /\ UNCHANGED <<nextId, tasksFile, tmPc, tmRestarts>>
    /\ UNCHANGED <<deletedIds, puzzleVars, fsVars, wxVars>>

\* tools/call delete_task
handleDeleteTask ==
    /\ TmServing
    /\ \E id \in RequestIds :
          /\ tmRequest' = [name |-> "delete_task", id |-> id, status |-> "none"]
          /\ \E r \in {deleteTask(tasks, id)} :
                /\ tasks' = r.tasks
                /\ pendingSaves' = IF r.saved
                                   THEN StartSave(pendingSaves, r.tasks, nextId, FALSE)
                                   ELSE pendingSaves
                /\ tmResponse' = IF r.thrown THEN NotFound(id)
                                 ELSE Success("Task deleted", id)
                /\ deletedIds' = IF r.thrown THEN deletedIds
                                 ELSE deletedIds \cup {id.v}
    /\ tmCalls' = tmCalls + 1
    /\ UNCHANGED <<nextId, tasksFile, tmPc, tmRestarts>>
    /\ UNCHANGED <<puzzleVars, fsVars, wxVars>>

\* tools/call complete_task: updateTask(args.id, { status: "done" })
handleCompleteTask ==
    /\ TmServing
    /\ \E id \in RequestIds :
          /\ tmRequest' = [name |-> "complete_task", id |-> id, status |-> "none"]
          /\ \E r \in {updateTask(tasks, id, "done")} :
                /\ tasks' = r.tasks
                /\ pendingSaves' = IF r.saved
                                   THEN StartSave(pendingSaves, r.tasks, nextId, FALSE)
                                   ELSE pendingSaves
                /\ tmResponse' = IF r.thrown THEN NotFound(id)
                                 ELSE Success("Task completed", id)
    /\ tmCalls' = tmCalls + 1
    /\ UNCHANGED <<nextId, tasksFile, tmPc, tmRestarts>>
    /\ UNCHANGED <<deletedIds, puzzleVars, fsVars, wxVars>>

\* fs.writeFile of one save in flight opens TASKS_FILE, truncating it.  The
\* saves in flight are not ordered among themselves: saveTasks is not awaited
\* by its callers, and concurrent writeFile calls on one file are a race.
saveOpen ==
    /\ \E k \in 1..Len(pendingSaves) :
          /\ pendingSaves[k].phase = "open"
          /\ pendingSaves' = [pendingSaves EXCEPT ![k].phase = "write"]
    /\ tasksFile' = EmptyFile
    /\ UNCHANGED <<tasks, nextId, tmRequest, tmResponse, tmCalls, tmPc, tmRestarts>>
    /\ UNCHANGED <<deletedIds, puzzleVars, fsVars, wxVars>>

\* fs.writeFile of one save in flight writes its text and completes
saveWrite ==
    /\ \E k \in 1..Len(pendingSaves) :
          /\ pendingSaves[k].phase = "write"
          /\ ~pendingSaves[k].exit
          /\ tasksFile' = WriteOver(tasksFile, pendingSaves[k].data)
          /\ pendingSaves' = RemoveAt(pendingSaves, k)
    /\ UNCHANGED <<tasks, nextId, tmRequest, tmResponse, tmCalls, tmPc, tmRestarts>>
    /\ UNCHANGED <<deletedIds, puzzleVars, fsVars, wxVars>>

\* process.on("SIGINT"): the handler starts a save and awaits it
sigint ==
    /\ tmPc = "running"
    /\ tmRestarts < MaxRestarts
    /\ pendingSaves' = StartSave(pendingSaves, tasks, nextId, TRUE)
    /\ tmPc' = "exiting"
    /\ UNCHANGED <<tasks, nextId, tasksFile, tmRequest, tmResponse, tmCalls, tmRestarts>>
    /\ UNCHANGED <<deletedIds, puzzleVars, fsVars, wxVars>>

\* the save the SIGINT handler awaits completes and process.exit(0) follows:
\* the other saves in flight go with the process, and the next process starts
\* with the module's initial tasks = [] and nextId = 1
sigintExit ==
    /\ tmPc = "exiting"
    /\ \E k \in 1..Len(pendingSaves) :
          /\ pendingSaves[k].phase = "write"
          /\ pendingSaves[k].exit
          /\ tasksFile' = WriteOver(tasksFile, pendingSaves[k].data)
    /\ pendingSaves' = <<>>
    /\ tasks' = <<>>
    /\ nextId' = 1
    /\ tmRequest' = NoRequest
    /\ tmResponse' = NoResponse
    /\ tmPc' = "start"
    /\ tmRestarts' = tmRestarts + 1
    /\ UNCHANGED tmCalls
    /\ UNCHANGED <<deletedIds, puzzleVars, fsVars, wxVars>>

NextTasks ==
    \/ tmMain
    \/ handleCreateTask
    \/ handleListTasks
    \/ handleGetTask
    \/ handleUpdateTask
    \/ handleDeleteTask
    \/ handleCompleteTask
    \/ saveOpen
    \/ saveWrite
    \/ sigint
    \/ sigintExit

SpecTasks == InitServers /\ [][NextTasks]_vars

-----------------------------------------------------------------------------
(* Actions of the filesystem server.  The server keeps no state from one    *)
(* request to the next, so one request is followed: it has arrived with its *)
(* path argument, and the handler of its method runs.                       *)

\* tools/call: the handler of the tool validates the path and then makes its
\* fs call on the absolute path, which succeeds or fails; the catch turns
\* anything thrown into an error result
fsToolsCall ==
    /\ fsRequest.method = "arrived"
    /\ \E name \in FsTools : \E fails \in BOOLEAN :
          /\ fsRequest' = [fsRequest EXCEPT !.method = "tools/call", !.name = name]
          /\ \E v \in {validatePath(fsRequest.path)} :
                IF v.thrown
                THEN /\ ~fails
                     /\ fsOp' = NoFsOp
                     /\ fsResponse' = [isError |-> TRUE, thrown |-> FALSE,
                                       kind |-> "Access denied"]
                ELSE /\ fsOp' = [call |-> FsCall(name), path |-> v.absolute]
                     /\ fsResponse' = IF fails
                                      THEN [isError |-> TRUE, thrown |-> FALSE,
                                            kind |-> "fs error"]
                                      ELSE [isError |-> FALSE, thrown |-> FALSE,
                                            kind |-> "content"]
    /\ UNCHANGED <<puzzleVars, taskVars, wxVars>>

\* resources/read of file://<path>: validatePath is called outside the try,
\* so its error leaves the handler as thrown
fsResourcesRead ==
    /\ fsRequest.method = "arrived"
    /\ \E fails \in BOOLEAN :
          /\ fsRequest' = [fsRequest EXCEPT !.method = "resources/read"]
          /\ \E v \in {validatePath(fsRequest.path)} :
                IF v.thrown
                THEN /\ ~fails
                     /\ fsOp' = NoFsOp
                     /\ fsResponse' = [isError |-> FALSE, thrown |-> TRUE,
                                       kind |-> "Access denied"]
                ELSE /\ fsOp' = [call |-> "readFile", path |-> v.absolute]
                     /\ fsResponse' = IF fails
                                      THEN [isError |-> FALSE, thrown |-> TRUE,
                                            kind |-> "fs error"]
                                      ELSE [isError |-> FALSE, thrown |-> FALSE,
                                            kind |-> "content"]
    /\ UNCHANGED <<puzzleVars, taskVars, wxVars>>

NextFilesystem == fsToolsCall \/ fsResourcesRead

SpecFilesystem == InitFilesystemRequest /\ [][NextFilesystem]_vars

-----------------------------------------------------------------------------
(* Actions of the weather server.  A call of geocodeCity or                 *)
(* getCurrentWeather runs to its return or to its await fetch(url) in one   *)
(* step; the rest of the call runs when the fetch settles.                  *)

\* the part of both functions before the await: lines 486-497 and 521-536
callBegin(op, key, arg) ==
    \E cached \in {cache[key]} :
        IF isFresh(cached, now)
        THEN /\ wxEvent' = WxEvent(op, key, "cached", cached.data)
             /\ UNCHANGED <<cache, now, fetches, apiRequests>>
        ELSE /\ apiRequests < MaxRequests
             /\ Len(fetches) < MaxFetches
             /\ apiRequests' = apiRequests + 1
             /\ fetches' = Append(fetches, [op |-> op, key |-> key, arg |-> arg])
             /\ wxEvent' = WxEvent(op, key, "requested", NoData)
             /\ UNCHANGED <<cache, now>>

geocodeCity ==
    /\ \E city \in Cities : callBegin("geocodeCity", GeocodeKey(city), <<city>>)
    /\ UNCHANGED <<puzzleVars, taskVars, fsVars>>

getCurrentWeather ==
    /\ \E c \in Coordinates :
          callBegin("getCurrentWeather", WeatherKey(c[1], c[2]), c)
    /\ UNCHANGED <<puzzleVars, taskVars, fsVars>>

\* a fetch settles with response.ok and the rest of the call runs: lines
\* 498-514 and 537-546
fetchOk ==
    /\ \E i \in 1..Len(fetches) : \E f \in {fetches[i]} :
          /\ fetches' = RemoveAt(fetches, i)
          /\ IF f.op = "geocodeCity"
             THEN \E results \in {GeocodingResults(f.arg[1])} :
                    IF results = <<>>
                    THEN /\ wxEvent' = WxEvent(f.op, f.key, "thrown", NoData)
                         /\ cache' = cache
                    ELSE /\ cache' = cacheSet(cache, f.key, results[1], now)
                         /\ wxEvent' = WxEvent(f.op, f.key, "stored", results[1])
             ELSE \E data \in {WeatherData(f.arg, now)} :
                    /\ cache' = cacheSet(cache, f.key, data, now)
                    /\ wxEvent' = WxEvent(f.op, f.key, "stored", data)
    /\ UNCHANGED <<now, apiRequests>>
    /\ UNCHANGED <<puzzleVars, taskVars, fsVars>>

\* a fetch rejects, or settles with !response.ok: the call throws at line
\* 498, 500, 538 or 540
fetchFails ==
    /\ \E i \in 1..Len(fetches) :
          /\ fetches' = RemoveAt(fetches, i)
          /\ wxEvent' = WxEvent(fetches[i].op, fetches[i].key, "thrown", NoData)
    /\ UNCHANGED <<cache, now, apiRequests>>
    /\ UNCHANGED <<puzzleVars, taskVars, fsVars>>

\* time passes
clockTick ==
    /\ now < MaxTicks * Tick
    /\ now' = now + Tick
    /\ wxEvent' = WxEvent("tick", NoKey, "none", NoData)
    /\ UNCHANGED <<cache, fetches, apiRequests>>
    /\ UNCHANGED <<puzzleVars, taskVars, fsVars>>

NextWeather == geocodeCity \/ getCurrentWeather \/ fetchOk \/ fetchFails \/ clockTick

SpecWeather == InitServers /\ [][NextWeather]_vars

-----------------------------------------------------------------------------
(* The puzzle itself, stated without the code's successor generation *)

Adjacent(p, q) == abs(p[1] - q[1]) + abs(p[2] - q[2]) = 1

\* a grid holding each of 0 .. (cells - 1) exactly once
ValidGrid(a) ==
    \A v \in 0..(NumCells(a) - 1) :
        Cardinality({p \in Cells(a) : a[p[1]][p[2]] = v}) = 1

\* y is x after sliding one tile into the blank
OneSlide(x, y) ==
    \E p \in Cells(x) : \E q \in Cells(x) :
        /\ Adjacent(p, q)
        /\ x[p[1]][p[2]] = 0
        /\ y[q[1]][q[2]] = 0
        /\ y[p[1]][p[2]] = x[q[1]][q[2]]
        /\ \A r \in Cells(x) \ {p, q} : y[r[1]][r[2]] = x[r[1]][r[2]]

Slides(x) ==
    {[x EXCEPT ![p[1]][p[2]] = x[q[1]][q[2]], ![q[1]][q[2]] = 0] :
        <<p, q>> \in {pq \in Cells(x) \X Cells(x) :
                        x[pq[1][1]][pq[1][2]] = 0 /\ Adjacent(pq[1], pq[2])}}

\* the grids at most k slides away from x
RECURSIVE WithinSlides(_, _)
WithinSlides(x, k) ==
    IF k <= 0 THEN (IF k = 0 THEN {x} ELSE {})
    ELSE LET W == WithinSlides(x, k - 1)
         IN W \cup UNION {Slides(y) : y \in W}

\* every grid that slides can produce from the grids of S
RECURSIVE SlideClosure(_)
SlideClosure(S) ==
    LET N == S \cup UNION {Slides(y) : y \in S}
    IN IF N = S THEN S ELSE SlideClosure(N)

\* permutation parity: the goal is reachable exactly when the number of
\* inverted pairs plus the blank's travel is even
Flat(a) == [n \in 1..NumCells(a) |-> a[CellAt(a, n)[1]][CellAt(a, n)[2]]]
PosOf(a, v) == CHOOSE n \in 1..NumCells(a) : Flat(a)[n] = v
Inversions(s, g) ==
    Cardinality({mn \in (1..NumCells(g)) \X (1..NumCells(g)) :
                    /\ mn[1] < mn[2]
                    /\ PosOf(s, Flat(g)[mn[1]]) > PosOf(s, Flat(g)[mn[2]])})
BlankTravel(s, g) ==
    abs(CellAt(s, PosOf(s, 0))[1] - CellAt(g, PosOf(g, 0))[1])
    + abs(CellAt(s, PosOf(s, 0))[2] - CellAt(g, PosOf(g, 0))[2])
SameParityClass(s, g) == (Inversions(s, g) + BlankTravel(s, g)) % 2 = 0

ValidInput == ValidGrid(startNode.a) /\ ValidGrid(goal)
SolvableInput == ValidInput /\ SameParityClass(startNode.a, goal)
UnsolvableInput == ValidInput /\ ~SameParityClass(startNode.a, goal)

\* the parity rule agrees with what slides can reach (reduced board)
ParityRuleIsReachability ==
    ValidInput => (SolvableInput <=> goal \in SlideClosure({startNode.a}))

ClosedGrids == {closed[k].a : k \in 1..Len(closed)}

-----------------------------------------------------------------------------
(* Claims *)

\* C1: for a valid start from which the goal is reachable, the path solve()
\* prints has the minimum number of slides: no sequence of legal slides from
\* start to goal is shorter than (path length - 1).
C1_PathIsShortest ==
    (pc = "exit" /\ run = 1 /\ SolvableInput)
        => goal \notin WithinSlides(startNode.a, Len(out) - 2)

\* C2: for a valid start from which the goal is reachable, the loop never
\* selects from an empty fringe and eventually selects the goal and stops.
C2_SolvableTerminates ==
    /\ [](SolvableInput => ~(pc = "loop" /\ fringe = <<>>))
    /\ [](SolvableInput => pc \notin UndefinedOutcomes)
    /\ (SolvableInput ~> (pc = "exit" /\ isGoal(currentNode.a, goal)))

C2_Witness ==
    /\ pc = "exit"
    /\ SolvableInput
    /\ isGoal(currentNode.a, goal)
    /\ Len(closed) >= 5

\* C3: whenever the search succeeds, the printed path starts at the start
\* grid, ends at the goal grid, and each grid follows from the one before it
\* by one swap of the blank with an orthogonally adjacent cell.
C3_PathIsValid ==
    (pc = "exit" /\ run = 1) =>
        /\ Len(out) >= 1
        /\ out[1] = startNode.a
        /\ out[Len(out)] = goal
        /\ \A k \in 1..(Len(out) - 1) : OneSlide(out[k], out[k + 1])

C3_Witness == pc = "exit" /\ run = 1 /\ Len(out) >= 5

\* C4: for a valid start from which the goal is not reachable, an empty
\* fringe at the selection step leads to the outcome FAILED, and to nothing
\* else.
C4_ExhaustionFails ==
    (UnsolvableInput /\ fringe = <<>> /\ closed # <<>>)
        => pc \in {"loop", "FAILED"}

\* C5: on an unsolvable instance, when the fringe is exhausted, closed holds
\* every grid reachable from the start, each exactly once, and nothing else.
C5_ClosedIsReachableSet ==
    (UnsolvableInput /\ pc = "loop" /\ fringe = <<>>) =>
        /\ ClosedGrids = SlideClosure({startNode.a})
        /\ Len(closed) = Cardinality(SlideClosure({startNode.a}))

C5_Witness ==
    /\ UnsolvableInput
    /\ pc = "loop"
    /\ fringe = <<>>
    /\ Len(closed) >= 12

\* C6: the node selected for expansion is the earliest-inserted node among
\* the fringe nodes with minimum f.
EarliestMinimum(fr) ==
    CHOOSE k \in 1..Len(fr) :
        /\ \A m \in 1..Len(fr) : fr[k].f <= fr[m].f
        /\ \A m \in 1..(k - 1) : fr[m].f > fr[k].f

C6_SelectsEarliestMinimum ==
    [][(pc = "loop" /\ fringe # <<>> /\ ValidInput)
            => currentNode' = fringe[EarliestMinimum(fringe)]]_vars

\* C7: an input whose start or goal grid does not hold each of 0..8 exactly
\* once is rejected before the search begins: nothing enters the fringe,
\* nothing is expanded, both counters stay 0 and no path is printed.
C7_InvalidInputRejected ==
    ~ValidInput =>
        /\ fringe = <<>>
        /\ closed = <<>>
        /\ nodesGenerated = 0
        /\ nodesExpanded = 0
        /\ out = <<>>
        /\ pc \notin {"loop", "exit"}

\* C8: a second search on the same input prints the same path and ends with
\* the same two counters as the first.
C8_SecondRunIdentical ==
    (SolvableInput /\ run = 2 /\ pc = "exit")
        => <<out, nodesGenerated, nodesExpanded>> = firstOut

\* C9: the heuristic value of a state from which the goal is reachable never
\* exceeds the minimum number of slides from that state to the goal.
C9_Admissible ==
    SolvableInput =>
        \A k \in 1..Len(fringe) :
            goal \notin WithinSlides(fringe[k].a, fringe[k].h - 1)

\* C10: along any single slide the heuristic value drops by at most 1:
\* h(s) <= 1 + h(s') for every state s and every s' one slide away.
C10_Consistent ==
    SolvableInput =>
        \A k \in 1..Len(fringe) : \A y \in Slides(fringe[k].a) :
            fringe[k].h <= 1 + getHeuristic(y, goal, macro)

\* C11: for a valid goal grid, both heuristics give 0 for the goal measured
\* against itself, and every node holding the goal grid is stored with h = 0.
C11_GoalHeuristicZero ==
    ValidGrid(goal) =>
        /\ \A mc \in Macros : getHeuristic(goal, goal, mc) = 0
        /\ \A k \in 1..Len(fringe) :
              isGoal(fringe[k].a, goal) => fringe[k].h = 0
        /\ (pc # "main" /\ isGoal(startNode.a, goal)) => startNode.h = 0

C11_Witness ==
    /\ ValidGrid(goal)
    /\ \E k \in 1..Len(fringe) :
          isGoal(fringe[k].a, goal) /\ fringe[k].g > 0 /\ fringe[k].h = 0

\* C12: for a valid input, every node stored in fringe or closed has
\* 0 <= h <= 8 under the misplaced-tiles heuristic (and 0 <= h <= the nine
\* cells' largest possible distances under Manhattan).
StoredNodes == SeqToSet(fringe) \cup SeqToSet(closed)

MaxHeuristic(a, mc) ==
    IF mc = "MANHATTAN"
    THEN NumCells(a) * ((Len(a) - 1) + (Len(a[1]) - 1))
    ELSE NumCells(a) - 1

C12_HeuristicInRange ==
    ValidInput =>
        \A n \in StoredNodes : 0 <= n.h /\ n.h <= MaxHeuristic(n.a, macro)

C14_StartIsGoal ==
    (run = 1 /\ startNode.a = goal) =>
        /\ closed = <<>>
        /\ nodesGenerated = 0
        /\ Len(fringe) <= 1
        /\ pc \in {"main", "solve", "loop", "exit"}
        /\ pc = "exit" => (out = <<startNode.a>> /\ nodesExpanded = 0)

C14_Witness ==
    /\ pc = "exit"
    /\ run = 1
    /\ startNode.a = goal
    /\ ValidInput
    /\ Len(out) = 1

\* C15: for start 1 2 3 / 4 0 6 / 7 5 8 and goal 1 2 3 / 4 5 6 / 7 8 0 the
\* search terminates with a non-empty path whose last grid is the goal, and
\* nodesGenerated >= nodesExpanded > 0.
Scenario == startNode.a = ScenarioStart /\ goal = StandardGoal

C15_ScenarioSolved ==
    Scenario ~>
        (/\ pc = "exit"
         /\ out # <<>>
         /\ out[Len(out)] = goal
         /\ nodesGenerated >= nodesExpanded
         /\ nodesExpanded > 0)

C15_Witness ==
    /\ Scenario
    /\ pc = "exit"
    /\ out # <<>>
    /\ out[Len(out)] = StandardGoal
    /\ nodesExpanded > 0

\* C16: within one run, a node pushed to the fringe never holds a grid that
\* is in closed, and closed never holds two entries with equal grids.
C16_ExpandedAtMostOnce ==
    /\ [](\A k \in 1..Len(closed) : \A m \in 1..Len(closed) :
              k # m => ~OperatorEq(closed[k], closed[m]))
    /\ [][\A k \in 1..Len(fringe') :
              fringe'[k] \notin SeqToSet(fringe)
                  => /\ ~isExplored(closed, fringe'[k])
                     /\ ~isExplored(closed', fringe'[k])]_vars

\* the number of push_back calls on the fringe so far in the first run: the
\* start, and every child that was not in closed when its parent was expanded
PushedSoFar ==
    1 + Cardinality({km \in (1..Len(closed)) \X (1..4) :
            /\ km[2] <= Len(Moves(closed[km[1]].a))
            /\ ~isExplored(SubSeq(closed, 1, km[1]),
                           [a |-> Moves(closed[km[1]].a)[km[2]]])})

\* some generated child was found in closed and not pushed
C16_Witness ==
    /\ pc = "loop"
    /\ run = 1
    /\ Len(closed) >= 3
    /\ nodesGenerated >= PushedSoFar

\* C17: at every selection step no fringe node holds a grid that is in
\* closed: expanding a grid removes every fringe node holding it, duplicates
\* pushed earlier from another parent or with another g included.
C17_FringeDisjointFromClosed ==
    (pc = "loop" /\ run = 1) =>
        \A k \in 1..Len(fringe) : ~isExplored(closed, fringe[k])

\* more nodes were pushed than are left in fringe and closed: an expansion
\* has removed a duplicate together with the node it selected
C17_Witness ==
    /\ pc = "loop"
    /\ run = 1
    /\ fringe # <<>>
    /\ PushedSoFar > Len(fringe) + Len(closed)

\* C18: task manager: in a process that has saved, once no save is in flight,
\* TASKS_FILE holds the text of the current task list and nextId, so that
\* loadTasks would restore exactly that state.
C18_FileMatchesMemory ==
    (/\ tmPc = "running"
     /\ tmRestarts = 0
     /\ tasksFile.kind # "absent"
     /\ pendingSaves = <<>>)
        => /\ tasksFile = JSONstringify(tasks, nextId)
           /\ loadTasks(tasksFile, <<>>, 1) = [tasks |-> tasks, nextId |-> nextId]

\* C19: task manager: get_task, update_task, delete_task and complete_task
\* called with an id that matches no task return the error result "Task <id>
\* not found" and leave the task list, nextId, the file and the saves in
\* flight as they are.
NotFoundCall ==
    /\ tmCalls' = tmCalls + 1
    /\ tmRequest'.name \in {"get_task", "update_task", "delete_task", "complete_task"}
    /\ \A k \in 1..Len(tasks) : ~StrictEqId(tasks[k].id, tmRequest'.id)

C19_NotFoundChangesNothing ==
    [][NotFoundCall =>
          /\ tmResponse'.isError
          /\ tmResponse' = NotFound(tmRequest'.id)
          /\ tasks' = tasks
          /\ nextId' = nextId
          /\ tasksFile' = tasksFile
          /\ pendingSaves' = pendingSaves]_vars

C19_Witness ==
    /\ tmRequest.name = "delete_task"
    /\ tmRequest.id.type = "number"
    /\ tmResponse = NotFound(tmRequest.id)
    /\ tasks # <<>>
    /\ pendingSaves # <<>>

\* C20: filesystem server: every fs call is made on a path that is an allowed
\* directory or lies inside one, and a request whose path resolves outside
\* all allowed directories is answered "Access denied" with no fs call made.
InsideAllowed(absolute) ==
    \E d \in 1..Len(ALLOWED_DIRECTORIES) :
        startsWith(Split(absolute), Split(ALLOWED_DIRECTORIES[d]))

C20_PathStaysInside ==
    fsRequest.method \in {"tools/call", "resources/read"} =>
        /\ fsOp.call # "none" => InsideAllowed(fsOp.path)
        /\ ~InsideAllowed(pathResolve(fsRequest.path))
               => (fsOp = NoFsOp /\ fsResponse.kind = "Access denied")

-----------------------------------------------------------------------------
(* Claims about single passes of the loop *)

\* a pass of while (true) of the first run that expands the node it selected
ExpandStep == pc = "loop" /\ pc' = "loop" /\ run = 1 /\ closed' # closed

\* a pass of while (true) of the first run that finds the goal
GoalStep == pc = "loop" /\ pc' = "exit" /\ run = 1

\* the fringe nodes that a pass pushed: the children of the entry it added to
\* closed
PushedNow == {k \in 1..Len(fringe') : fringe'[k].parent = Len(closed')}

\* the fringe nodes holding the selected node's grid when it is selected
EqualToSelected == {k \in 1..Len(fringe) : OperatorEq(fringe[k], currentNode')}

\* C22 (as stated): every expanding pass takes exactly one node out of the
\* fringe, the children it pushes not counted.
C22_RemovesExactlyOne ==
    [][ExpandStep =>
          Len(fringe') - Cardinality(PushedNow) = Len(fringe) - 1]_vars

\* C22 (amended): an expanding pass takes out of the fringe every node whose
\* grid equals the selected node's, the selected node among them: at least
\* one node, exactly one when the fringe holds that grid once, and none of
\* them is left; the pass that finds the goal takes nothing out.
C22_RemovesEveryEqualNode ==
    /\ [][ExpandStep =>
             /\ Cardinality(EqualToSelected) >= 1
             /\ Len(fringe') - Cardinality(PushedNow)
                    = Len(fringe) - Cardinality(EqualToSelected)
             /\ \A k \in 1..Len(fringe') : ~OperatorEq(fringe'[k], currentNode')
             /\ \A k \in 1..Len(fringe) :
                    ~OperatorEq(fringe[k], currentNode')
                        => \E m \in 1..Len(fringe') : fringe'[m] = fringe[k]]_vars
    /\ [][GoalStep => fringe' = fringe]_vars

\* a finished run of a valid input in which the expansions took more nodes
\* out of the fringe than there were expansions
C22_Witness ==
    /\ pc = "exit"
    /\ run = 1
    /\ ValidInput
    /\ nodesExpanded = Len(closed)
    /\ PushedSoFar - Len(fringe) > nodesExpanded

\* C23: for a valid input, the candidates of an expanded node are exactly the
\* grids got by swapping the blank with an orthogonally adjacent cell: 2 for
\* a corner blank, 3 for an edge blank, 4 for the centre; each differs from
\* the parent in exactly the two cells swapped and holds every value once.
BlankCell(a) == CHOOSE p \in Cells(a) : a[p[1]][p[2]] = 0

NeighbourCells(a, p) == {q \in Cells(a) : Adjacent(p, q)}

DifferingCells(x, y) == {p \in Cells(x) : x[p[1]][p[2]] # y[p[1]][p[2]]}

C23_ChildrenAreNeighbourSwaps ==
    [][(ExpandStep /\ ValidInput) =>
          LET par == currentNode'.a
              b == BlankCell(par)
              kids == MovesIn(par, directions)
          IN /\ ValidGrid(par)
             /\ SeqToSet(kids) = Slides(par)
             /\ Len(kids) = Cardinality(NeighbourCells(par, b))
             /\ Len(kids) = (IF b[1] \in {1, Len(par)} THEN 1 ELSE 2)
                              + (IF b[2] \in {1, Len(par[1])} THEN 1 ELSE 2)
             /\ nodesGenerated' = nodesGenerated + Len(kids)
             /\ {fringe'[k].a : k \in PushedNow} = SeqToSet(kids) \ ClosedGrids'
             /\ \A n \in 1..Len(kids) :
                    /\ ValidGrid(kids[n])
                    /\ Cardinality(DifferingCells(par, kids[n])) = 2
                    /\ b \in DifferingCells(par, kids[n])
                    /\ \E q \in NeighbourCells(par, b) :
                           /\ DifferingCells(par, kids[n]) = {b, q}
                           /\ kids[n][b[1]][b[2]] = par[q[1]][q[2]]
                           /\ kids[n][q[1]][q[2]] = 0]_vars

\* nodes with a corner blank, an edge blank and the centre blank were expanded
C23_Witness ==
    /\ ValidInput
    /\ run = 1
    /\ \A c \in 2..4 : \E k \in 1..Len(closed) : Len(Moves(closed[k].a)) = c
    /\ nodesGenerated >= 9

\* C24: every node in the fringe or in closed has f = g + h with h the
\* heuristic of its own grid; the node without a parent is the start node
\* with g = 0, and every other node has g = parent.g + 1, its parent being
\* the closed entry of the node expanded when it was generated.
C24_CostsOfStoredNodes ==
    (pc \in {"loop", "exit"} /\ run = 1) =>
        \A n \in StoredNodes :
            /\ n.f = n.g + n.h
            /\ n.h = getHeuristic(n.a, goal, macro)
            /\ n.parent = NULL => (n = startNode /\ n.g = 0)
            /\ n.parent # NULL =>
                  /\ n.parent \in 1..Len(closed)
                  /\ n.g = closed[n.parent].g + 1
                  /\ n.a \in SeqToSet(Moves(closed[n.parent].a))

C24_Witness ==
    /\ pc = "loop"
    /\ run = 1
    /\ \E k \in 1..Len(fringe) :
          /\ fringe[k].g >= 3
          /\ fringe[k].h > 0
          /\ fringe[k].f = fringe[k].g + fringe[k].h
          /\ closed[fringe[k].parent].g = fringe[k].g - 1

\* C25: nodesGenerated counts every candidate produced, kept or discarded:
\* it is the sum over the expanded nodes of their numbers of legal moves; and
\* the nodes pushed to the fringe are the start node and, in each expansion,
\* the candidates produced less those found in closed.
LegalMoves(a) == Cardinality(Slides(a))

SumOfLegalMoves(cl) ==
    LET sum[n \in 0..Len(cl)] ==
            IF n = 0 THEN 0 ELSE sum[n - 1] + LegalMoves(cl[n].a)
    IN sum[Len(cl)]

\* the candidates of the pass found in closed, one per legal move
DiscardedNow ==
    {m \in Slides(currentNode'.a) : isExplored(closed', [a |-> m])}

C25_GeneratedCountsEveryCandidate ==
    /\ []((pc \in {"loop", "exit"} /\ run = 1 /\ ValidInput)
             => /\ nodesGenerated = SumOfLegalMoves(closed)
                /\ PushedSoFar = 1 + nodesGenerated
                       - Cardinality({km \in (1..Len(closed)) \X (1..4) :
                            /\ km[2] <= Len(Moves(closed[km[1]].a))
                            /\ isExplored(SubSeq(closed, 1, km[1]),
                                          [a |-> Moves(closed[km[1]].a)[km[2]]])}))
    /\ [][(ExpandStep /\ ValidInput) =>
             /\ nodesGenerated' - nodesGenerated = LegalMoves(currentNode'.a)
             /\ Cardinality(PushedNow)
                    = (nodesGenerated' - nodesGenerated) - Cardinality(DiscardedNow)]_vars
    /\ [][(pc = "solve" /\ run = 1) => Len(fringe') = Len(fringe) + 1]_vars

\* a finished run in which two candidates or more were discarded
C25_Witness ==
    /\ pc = "exit"
    /\ run = 1
    /\ ValidInput
    /\ Len(closed) >= 3
    /\ nodesGenerated = SumOfLegalMoves(closed)
    /\ 1 + nodesGenerated - PushedSoFar >= 2

\* C26: every node in the fringe or in closed has no parent (the start node
\* only) or a parent that is an entry of closed; entries of closed are never
\* removed or changed; the parent chain visits strictly decreasing g and
\* reaches the start node after exactly g steps, so it has no cycle and the
\* path printed has g(goal) + 1 grids.
C26_ParentChain ==
    /\ []((pc \in {"loop", "exit"} /\ run = 1) =>
             \A n \in StoredNodes :
                /\ n.parent = NULL => n = startNode
                /\ n.parent # NULL =>
                      /\ n.parent \in 1..Len(closed)
                      /\ closed[n.parent].g < n.g
                      /\ closed[n.parent].parent < n.parent
                /\ Len(printPath(closed, n)) = n.g + 1
                /\ printPath(closed, n)[1] = startNode.a
                /\ printPath(closed, n)[n.g + 1] = n.a)
    /\ [][/\ Len(closed') >= Len(closed)
          /\ SubSeq(closed', 1, Len(closed)) = closed]_vars
    /\ []((pc = "exit" /\ run = 1) =>
             /\ Len(out) = currentNode.g + 1
             /\ out = printPath(closed, currentNode))

C26_Witness ==
    /\ pc = "exit"
    /\ run = 1
    /\ currentNode.g >= 3
    /\ currentNode.parent # NULL
    /\ closed[currentNode.parent].parent # NULL
    /\ Len(out) = currentNode.g + 1

\* C28: candidates are checked against closed only: every candidate whose
\* grid is not in closed is pushed, a fringe node holding the same grid
\* notwithstanding, so the fringe can hold two nodes with equal grids.
C28_DeduplicatedAgainstClosedOnly ==
    [][ExpandStep =>
          \A m \in SeqToSet(MovesIn(currentNode'.a, directions)) :
              ~isExplored(closed', [a |-> m])
                  => \E k \in PushedNow : fringe'[k].a = m]_vars

\* the fringe holds two nodes with equal grids, different g and different
\* parents
C28_Witness ==
    /\ pc = "loop"
    /\ run = 1
    /\ ValidInput
    /\ \E k \in 1..Len(fringe) : \E m \in 1..Len(fringe) :
          /\ k < m
          /\ OperatorEq(fringe[k], fringe[m])
          /\ fringe[k].g # fringe[m].g
          /\ fringe[k].parent # fringe[m].parent
          /\ ~isExplored(closed, fringe[k])

\* C29: of the fringe nodes holding the selected node's grid, the one
\* selected and appended to closed, the parent of that grid's children, has
\* the smallest g; no node taken out with it has a smaller g.
C29_SelectedHasSmallestG ==
    [][(ExpandStep \/ GoalStep) =>
          /\ currentNode' \in SeqToSet(fringe)
          /\ \A k \in EqualToSelected : fringe[k].g >= currentNode'.g
          /\ ExpandStep =>
                /\ closed' = Append(closed, currentNode')
                /\ \A k \in PushedNow : fringe'[k].g = currentNode'.g + 1]_vars

\* the node just appended to closed had a copy in the fringe with a larger
\* g: the child of an entry of closed expanded before it
C29_Witness ==
    /\ pc = "loop"
    /\ run = 1
    /\ ValidInput
    /\ closed # <<>>
    /\ closed[Len(closed)] = currentNode
    /\ \E j \in 1..(Len(closed) - 1) :
          /\ currentNode.a \in SeqToSet(Moves(closed[j].a))
          /\ closed[j].g + 1 > currentNode.g

\* C27: the order of the four direction checks does not affect the result's
\* length: for a solvable input and every order of the checks, the path
\* printed is a valid path from the start to the goal, as long as the path
\* the program prints with its checks in the order written.
C27_OrderDoesNotMatter ==
    (pc = "exit" /\ run = 1 /\ SolvableInput) =>
        /\ out # <<>>
        /\ out[1] = startNode.a
        /\ out[Len(out)] = goal
        /\ \A k \in 1..(Len(out) - 1) : OneSlide(out[k], out[k + 1])
        /\ Len(out) = Len(RunFrom(startNode.a, goal, macro, Directions))

\* C21: weather server: a call of geocodeCity or getCurrentWeather for a key
\* set less than CACHE_TTL ago returns the entry's data and issues no API
\* request; a call for a key never set, or set CACHE_TTL ago or earlier,
\* issues one, and when that request succeeds its data and the time replace
\* the entry; a call that throws leaves the cache as it is.
WxCall == wxEvent'.result \in {"cached", "requested"}

C21_CacheTTL ==
    /\ [][WxCall =>
             LET e == cache[wxEvent'.key]
             IN /\ (e.present /\ now - e.timestamp < CACHE_TTL) =>
                      /\ wxEvent'.result = "cached"
                      /\ wxEvent'.data = e.data
                      /\ apiRequests' = apiRequests
                      /\ fetches' = fetches
                /\ (~e.present \/ now - e.timestamp >= CACHE_TTL) =>
                      /\ wxEvent'.result = "requested"
                      /\ apiRequests' = apiRequests + 1
                      /\ Len(fetches') = Len(fetches) + 1
                      /\ fetches'[Len(fetches')].key = wxEvent'.key
                /\ cache' = cache]_vars
    /\ [][wxEvent'.result = "stored" =>
             /\ cache'[wxEvent'.key] =
                    [present |-> TRUE, data |-> wxEvent'.data, timestamp |-> now]
             /\ \A key \in CacheKeys \ {wxEvent'.key} : cache'[key] = cache[key]
             /\ apiRequests' = apiRequests]_vars
    /\ [][wxEvent'.result = "thrown" => cache' = cache]_vars
    /\ [](\A key \in CacheKeys : cache[key].present => cache[key].timestamp <= now)

\* weather data served from the cache some time after its entry was set, by
\* a request issued when CACHE_TTL or more had passed since the server began
C21_Witness ==
    /\ wxEvent.op = "getCurrentWeather"
    /\ wxEvent.result = "cached"
    /\ cache[wxEvent.key].timestamp >= CACHE_TTL
    /\ now - cache[wxEvent.key].timestamp > 0
    /\ now - cache[wxEvent.key].timestamp < CACHE_TTL
    /\ wxEvent.data.observed = cache[wxEvent.key].timestamp
    /\ apiRequests >= 2

\* C30: task manager: the tasks of the list have pairwise distinct ids, every
\* id is less than nextId, and createTask never hands out the id of a task
\* deleted before, in this process or, the file being reloaded, in an
\* earlier one.
C30_IdsUniqueNeverReused ==
    tmPc \in {"running", "exiting"} =>
        /\ \A k \in 1..Len(tasks) : \A m \in 1..Len(tasks) :
              k # m => tasks[k].id # tasks[m].id
        /\ \A k \in 1..Len(tasks) : tasks[k].id < nextId
        /\ tmRequest.name = "create_task" => tmResponse.id.v \notin deletedIds

=============================================================================
